---------------------------- MODULE Spec2Model ----------------------------
(***************************************************************************)
(* State-machine model of the GOES-19 toolkit:                             *)
(*   src/src/download_goes.py    (Fetcher: ensure_dir, download_file,      *)
(*                                download_many, build_goes_example_url)   *)
(*   src/src/preprocess_goes.py  (Scene Preparer)                          *)
(*   src/src/plot_goes.py        (Renderer)                                *)
(* Strings that the code splits, strips or joins are sequences of          *)
(* one-character strings.                                                  *)
(***************************************************************************)
EXTENDS Integers, Sequences, FiniteSets, TLC

VARIABLES
    \* ---- Fetcher (download_goes.py) ----
    fs,        \* files of out_dir: file name -> [exists, data]
    dirState,  \* out_dir: "absent", "present" or "blocked" (cannot be created)
    pc,        \* position of the single thread inside the fetcher
    op,        \* top-level operation running or last run
    urls,      \* argument of download_many (for download_file: <<url>>)
    idx,       \* loop position of download_many (line 82)
    results,   \* download_many's results list
    errlog,    \* logger.error entries of the running/last call
    inflight,  \* loop positions whose HTTP response is open (transfer running)
    resp,      \* the response download_file holds: [open, status, chunks]
    reqs,      \* network requests made by the current download_file call
    ret,       \* what the last top-level call handed to its caller
    \* observation (history) variables of the fetcher
    pre,       \* fs entry of the target when the current download_file was entered
    order,     \* loop positions for which download_file was entered, in order
    hist,      \* how each download_file of the running/last call ended, in order
    broken,    \* file name -> the content left behind by a failed transfer
    \* ---- Scene Preparer (preprocess_goes.py) ----
    scene,     \* the file at path: [readable, names, y, x]
    var_name,  \* prepare_scene's var_name argument
    ppc,       \* position inside prepare_scene and the caller's follow-up
    ds,        \* the dataset open_goes_scene returned: name -> field
    da,        \* the field select_variable returned
    bounds,    \* [lat, lon]: the bounds of the first subset_domain call
    bounds2,   \* [lat, lon]: the bounds of the second subset_domain call
    sub,       \* prepare_scene's result (the first subset)
    sub2,      \* subset_domain applied to sub once more
    pexc,      \* the exception that left the preparer: [type, msg]
    ptrace,    \* the operations prepare_scene has entered, in order
    \* ---- Renderer (plot_goes.py) ----
    figs,      \* pyplot's open figures (their numbers)
    images,    \* files written by savefig: path -> [exists, img]
    pdirs,     \* directories that exist below the figure tree
    backend,   \* what plt.show() does: "blocking" or "nonblocking"
    rpc,       \* position inside plot_goes_scene
    rargs,     \* arguments of the running/last plot_goes_scene call
    rfig,      \* the figure the running/last call created
    rret,      \* "none", "ok" or "raise": how the last call ended
    rcalls,    \* calls of plot_goes_scene made so far
    imagesPre, \* observation: images when the running/last call was entered
    \* ---- build_goes_example_url ----
    ubase,     \* base_url
    ufile,     \* filename
    upc,       \* "input" or "built"
    uresult    \* the url returned

fetchVars == <<fs, dirState, pc, op, urls, idx, results, errlog, inflight,
               resp, reqs, ret, pre, order, hist, broken>>

prepVars == <<scene, var_name, ppc, ds, da, bounds, bounds2, sub, sub2, pexc, ptrace>>

plotVars == <<figs, images, pdirs, backend, rpc, rargs, rfig, rret, rcalls,
              imagesPre>>

urlVars == <<ubase, ufile, upc, uresult>>

vars == <<fetchVars, prepVars, plotVars, urlVars>>

-----------------------------------------------------------------------------
\* Bounds of the model
MaxBatch == 2      \* longest url list handed to download_many
NumChunks == 3     \* chunks iter_content yields for one response body
MaxBase == 3       \* longest generated base_url
MaxFile == 2       \* longest generated filename
MaxCoord == 3      \* coordinate values are 1..MaxCoord, axes at most that long
MaxRenders == 3    \* calls of plot_goes_scene in one run

-----------------------------------------------------------------------------
\* Strings as sequences of characters

Slash == "/"

RECURSIVE LastSlash(_)
\* position of the last "/" of s, 0 when there is none
LastSlash(s) ==
    IF s = <<>> THEN 0
    ELSE IF s[Len(s)] = Slash THEN Len(s)
    ELSE LastSlash(SubSeq(s, 1, Len(s) - 1))

\* url.split("/")[-1]
LastSegment(url) == SubSeq(url, LastSlash(url) + 1, Len(url))

\* the urls the caller may pass: two with the same last segment, one without "/"
URLS == { <<"h", "/", "a">>, <<"g", "/", "a">>, <<"b">> }

Names == { LastSegment(u) : u \in URLS }

\* out_dir / filename
OutPath(url) == [dir |-> "out_dir", name |-> LastSegment(url)]

Absent == [exists |-> FALSE, data |-> <<>>]
\* a file that was in out_dir before the program ran
OldFile == [exists |-> TRUE, data |-> << <<"o", "l", "d">> >>]

\* the body the server streams for url, as iter_content's chunks; every second
\* chunk is an empty keep-alive chunk
Body(url) == [k \in 1..NumChunks |-> IF k % 2 = 1 THEN <<url>> ELSE <<>>]

NoResp == [open |-> FALSE, status |-> 0, chunks |-> <<>>]
NoPath == [dir |-> "", name |-> <<>>]
NoRet == [kind |-> "none", path |-> NoPath, paths |-> <<>>, exc |-> ""]

Batches == UNION { [1..n -> URLS] : n \in 0..MaxBatch }


\* the exceptions the fetcher's collaborators raise: mkdir/open/write raise
\* OSError, requests.get ConnectionError, raise_for_status HTTPError,
\* iter_content ChunkedEncodingError
Exceptions == {"OSError", "ConnectionError", "HTTPError", "ChunkedEncodingError"}

\* the statuses a server may answer with
Statuses == {200, 404, 503}

\* mutant: the existence check is missing
ExistsNever(name) == FALSE

\* the current url of the running download_file
CurUrl == urls[idx]
CurName == LastSegment(CurUrl)

\* out_path.exists()
Exists(name) == fs[name].exists

\* resp.raise_for_status(): raises for 4xx and 5xx
BadStatus(status) == status >= 400 /\ status < 600

\* mutant: the except clause names only the transport errors
BatchCatchesTransport(e) ==
    e \in {"ConnectionError", "HTTPError", "ChunkedEncodingError"}

\* download_many's "except Exception": every exception raised here is one
BatchCatches(e) == e \in Exceptions

-----------------------------------------------------------------------------
\* Fetcher

FetchInit ==
    /\ dirState \in {"absent", "present", "blocked"}
    /\ fs \in [Names -> {Absent, OldFile}]
    /\ dirState # "present" => \A n \in Names : fs[n] = Absent
    /\ pc = "idle"
    /\ op = "none"
    /\ urls = <<>>
    /\ idx = 1
    /\ results = <<>>
    /\ errlog = <<>>
    /\ inflight = {}
    /\ resp = NoResp
    /\ reqs = 0
    /\ ret = NoRet
    /\ pre = Absent
    /\ order = <<>>
    /\ hist = <<>>
    /\ broken = [n \in Names |-> Absent]


\* mutant: the except clause logs the error and leaves the loop
RaiseBreak(e) ==
    /\ inflight' = inflight \ {idx}
    /\ resp' = NoResp
    /\ hist' = Append(hist, [url |-> urls[idx], kind |-> "raise", path |-> NoPath,
                             exc |-> e])
    /\ IF op = "download_many" /\ BatchCatches(e)
       THEN /\ errlog' = Append(errlog, [url |-> urls[idx], exc |-> e])
            /\ idx' = Len(urls) + 1
            /\ pc' = "loop"
            /\ UNCHANGED <<results, ret>>
       ELSE /\ ret' = [NoRet EXCEPT !.kind = "raise", !.exc = e]
            /\ pc' = "idle"
            /\ UNCHANGED <<errlog, idx, results>>

\* mutant: the except clause logs the error and tries the same url again
RaiseRetry(e) ==
    /\ inflight' = inflight \ {idx}
    /\ resp' = NoResp
    /\ hist' = Append(hist, [url |-> urls[idx], kind |-> "raise", path |-> NoPath,
                             exc |-> e])
    /\ IF op = "download_many" /\ BatchCatches(e)
       THEN /\ errlog' = Append(errlog, [url |-> urls[idx], exc |-> e])
            /\ idx' = IF Len(hist) < Len(urls) THEN idx ELSE idx + 1
            /\ pc' = "loop"
            /\ UNCHANGED <<results, ret>>
       ELSE /\ ret' = [NoRet EXCEPT !.kind = "raise", !.exc = e]
            /\ pc' = "idle"
            /\ UNCHANGED <<errlog, idx, results>>

\* an exception e leaves download_file: the caller gets it, unless the call
\* came from download_many, whose except clause logs it and goes on
Raise(e) ==
    /\ inflight' = inflight \ {idx}
    /\ resp' = NoResp
    /\ hist' = Append(hist, [url |-> CurUrl, kind |-> "raise", path |-> NoPath,
                             exc |-> e])
    /\ IF op = "download_many" /\ BatchCatches(e)
       THEN /\ errlog' = Append(errlog, [url |-> CurUrl, exc |-> e])
            /\ idx' = idx + 1
            /\ pc' = "loop"
            /\ UNCHANGED <<results, ret>>
       ELSE /\ ret' = [NoRet EXCEPT !.kind = "raise", !.exc = e]
            /\ pc' = "idle"
            /\ UNCHANGED <<errlog, idx, results>>

\* download_file returns path p: to the caller, or into download_many's results
Return(p) ==
    /\ inflight' = inflight \ {idx}
    /\ resp' = NoResp
    /\ hist' = Append(hist, [url |-> CurUrl, kind |-> "ok", path |-> p, exc |-> ""])
    /\ IF op = "download_many"
       THEN /\ results' = Append(results, p)
            /\ idx' = idx + 1
            /\ pc' = "loop"
            /\ UNCHANGED <<errlog, ret>>
       ELSE /\ ret' = [NoRet EXCEPT !.kind = "ok", !.path = p]
            /\ pc' = "idle"
            /\ UNCHANGED <<errlog, idx, results>>

\* the caller calls download_file(url, out_dir)
CallDownloadFile(u) ==
    /\ pc = "idle"
    /\ pc' = "ensure_dir"
    /\ op' = "download_file"
    /\ urls' = <<u>>
    /\ idx' = 1
    /\ results' = <<>>
    /\ errlog' = <<>>
    /\ reqs' = 0
    /\ ret' = NoRet
    /\ pre' = fs[LastSegment(u)]
    /\ order' = <<1>>
    /\ hist' = <<>>
    /\ UNCHANGED <<fs, dirState, inflight, resp, broken, prepVars, plotVars, urlVars>>

\* the caller calls download_many(urls, out_dir)
CallDownloadMany(us) ==
    /\ pc = "idle"
    /\ pc' = "loop"
    /\ op' = "download_many"
    /\ urls' = us
    /\ idx' = 1
    /\ results' = <<>>
    /\ errlog' = <<>>
    /\ reqs' = 0
    /\ ret' = NoRet
    /\ pre' = Absent
    /\ order' = <<>>
    /\ hist' = <<>>
    /\ UNCHANGED <<fs, dirState, inflight, resp, broken, prepVars, plotVars, urlVars>>

\* download_many's for loop: the next url enters download_file, or the list
\* is exhausted and results is returned
LoopStep ==
    /\ pc = "loop"
    /\ IF idx <= Len(urls)
       THEN /\ pc' = "ensure_dir"
            /\ reqs' = 0
            /\ pre' = fs[CurName]
            /\ order' = Append(order, idx)
            /\ UNCHANGED ret
       ELSE /\ pc' = "idle"
            /\ ret' = [NoRet EXCEPT !.kind = "ok", !.paths = results]
            /\ UNCHANGED <<reqs, pre, order>>
    /\ UNCHANGED <<fs, dirState, op, urls, idx, results, errlog, inflight,
                   resp, hist, broken, prepVars, plotVars, urlVars>>

\* ensure_dir(out_dir): mkdir(parents=True, exist_ok=True)
EnsureDir ==
    /\ pc = "ensure_dir"
    /\ IF dirState = "blocked"
       THEN /\ Raise("OSError")
            /\ UNCHANGED dirState
       ELSE /\ dirState' = "present"
            /\ pc' = "exists"
            /\ UNCHANGED <<idx, results, errlog, inflight, resp, ret, hist>>
    /\ UNCHANGED <<fs, op, urls, reqs, pre, order, broken, prepVars, plotVars, urlVars>>

\* if out_path.exists(): return out_path
ExistsCheck ==
    /\ pc = "exists"
    /\ IF Exists(CurName)
       THEN Return(OutPath(CurUrl))
       ELSE /\ pc' = "get"
            /\ UNCHANGED <<idx, results, errlog, inflight, resp, ret, hist>>
    /\ UNCHANGED <<fs, dirState, op, urls, reqs, pre, order, broken, prepVars, plotVars, urlVars>>

\* resp = requests.get(url, stream=True, timeout=60)
Get ==
    /\ pc = "get"
    /\ reqs' = reqs + 1
    /\ \/ /\ Raise("ConnectionError")
       \/ \E st \in Statuses :
            /\ resp' = [open |-> TRUE, status |-> st, chunks |-> Body(CurUrl)]
            /\ inflight' = inflight \cup {idx}
            /\ pc' = "status"
            /\ UNCHANGED <<idx, results, errlog, ret, hist>>
    /\ UNCHANGED <<fs, dirState, op, urls, pre, order, broken, prepVars, plotVars, urlVars>>

\* mutant: the file is opened before the status is checked
RaiseForStatusAfterOpen ==
    /\ pc = "status"
    /\ fs' = [fs EXCEPT ![CurName] = [exists |-> TRUE, data |-> <<>>]]
    /\ IF BadStatus(resp.status)
       THEN Raise("HTTPError")
       ELSE /\ pc' = "open"
            /\ UNCHANGED <<idx, results, errlog, inflight, resp, ret, hist>>
    /\ UNCHANGED <<dirState, op, urls, reqs, pre, order, broken, prepVars, plotVars, urlVars>>

\* resp.raise_for_status()
RaiseForStatus ==
    /\ pc = "status"
    /\ IF BadStatus(resp.status)
       THEN Raise("HTTPError")
       ELSE /\ pc' = "open"
            /\ UNCHANGED <<idx, results, errlog, inflight, resp, ret, hist>>
    /\ UNCHANGED <<fs, dirState, op, urls, reqs, pre, order, broken, prepVars, plotVars, urlVars>>

\* with open(out_path, "wb") as f: creates or truncates the file, or fails
OpenFile ==
    /\ pc = "open"
    /\ \/ /\ fs' = [fs EXCEPT ![CurName] = [exists |-> TRUE, data |-> <<>>]]
          /\ pc' = "chunk"
          /\ UNCHANGED <<idx, results, errlog, inflight, resp, ret, hist>>
       \/ /\ Raise("OSError")
          /\ UNCHANGED fs
    /\ UNCHANGED <<dirState, op, urls, reqs, pre, order, broken, prepVars, plotVars, urlVars>>

\* one round of "for chunk in resp.iter_content(...): if chunk: f.write(chunk)"
\* and, when the iterator is exhausted, the return of out_path
Chunk ==
    /\ pc = "chunk"
    /\ IF resp.chunks = <<>>
       THEN /\ Return(OutPath(CurUrl))
            /\ UNCHANGED <<fs, broken>>
       ELSE \/ /\ fs' = [fs EXCEPT ![CurName].data =
                            IF Head(resp.chunks) # <<>>
                            THEN @ \o Head(resp.chunks) ELSE @]
               /\ resp' = [resp EXCEPT !.chunks = Tail(@)]
               /\ UNCHANGED <<pc, idx, results, errlog, inflight, ret, hist, broken>>
            \/ /\ Raise("ChunkedEncodingError")
               /\ broken' = [broken EXCEPT ![CurName] = fs[CurName]]
               /\ UNCHANGED fs
            \/ /\ Head(resp.chunks) # <<>>
               /\ Raise("OSError")
               /\ broken' = [broken EXCEPT ![CurName] = fs[CurName]]
               /\ UNCHANGED fs
    /\ UNCHANGED <<dirState, op, urls, reqs, pre, order, prepVars, plotVars, urlVars>>

\* the steps the thread takes once a call was made
FetchStep ==
    \/ LoopStep
    \/ EnsureDir
    \/ ExistsCheck
    \/ Get
    \/ RaiseForStatus
    \/ OpenFile
    \/ Chunk

-----------------------------------------------------------------------------
\* build_goes_example_url

\* the characters of the spec's example "https://example.com/data"
ExampleBase ==
    <<"h", "t", "t", "p", "s", ":", "/", "/", "e", "x", "a", "m", "p", "l", "e",
      ".", "c", "o", "m", "/", "d", "a", "t", "a">>
ExampleFile == <<"f", "i", "l", "e", ".", "n", "c">>

SeqsUpTo(S, n) == UNION { [1..k -> S] : k \in 0..n }

Bases == SeqsUpTo({"a", Slash}, MaxBase) \cup {ExampleBase, ExampleBase \o <<Slash>>}
Files == SeqsUpTo({"f", Slash}, MaxFile) \cup {ExampleFile}

\* mutant: the trailing slashes are not stripped
RStripNothing(s) == s

RECURSIVE RStrip(_)
\* s.rstrip("/"): s without its trailing slashes
RStrip(s) ==
    IF s # <<>> /\ s[Len(s)] = Slash
    THEN RStrip(SubSeq(s, 1, Len(s) - 1))
    ELSE s

\* f"{base_url.rstrip('/')}/{filename}"
build_goes_example_url(base_url, filename) ==
    RStrip(base_url) \o <<Slash>> \o filename

UrlInit ==
    /\ ubase \in Bases
    /\ ufile \in Files
    /\ upc = "input"
    /\ uresult = <<>>

UrlIdle ==
    /\ ubase = <<>>
    /\ ufile = <<>>
    /\ upc = "off"
    /\ uresult = <<>>

\* the caller calls build_goes_example_url(base_url, filename)
BuildUrl ==
    /\ upc = "input"
    /\ uresult' = build_goes_example_url(ubase, ufile)
    /\ upc' = "built"
    /\ UNCHANGED <<ubase, ufile, fetchVars, prepVars, plotVars>>

-----------------------------------------------------------------------------
\* Scene Preparer

Coords == 1..MaxCoord
\* the values a bound may take: below, inside and above the coordinates
BoundVals == 0..(MaxCoord + 1)
\* the (min, max) pairs a caller may pass as lat_bounds or lon_bounds
Windows == { w \in BoundVals \X BoundVals : w[1] <= w[2] }

Range(a) == { a[i] : i \in 1..Len(a) }

\* a coordinate axis: distinct values in any order (ascending, descending, unsorted)
Axes == { a \in SeqsUpTo(Coords, MaxCoord) :
            \A i, j \in 1..Len(a) : i # j => a[i] # a[j] }

AscAxis == [i \in 1..MaxCoord |-> i]
DescAxis == [i \in 1..MaxCoord |-> MaxCoord + 1 - i]
\* full-range axis starting in the middle: unsorted once it has three values
RotAxis == [i \in 1..MaxCoord |-> IF i < MaxCoord THEN i + 1 ELSE 1]

\* the names a caller may ask for; the files hold "CMI" and "Rad"
VarNames == {"CMI", "tbb"}

\* the sample stored at coordinates (yv, xv) of variable n
Sample(n, yv, xv) == (IF n = "CMI" THEN 100 ELSE 200) + 10 * yv + xv

MakeField(n, y, x) ==
    [name |-> n, y |-> y, x |-> x,
     vals |-> [i \in 1..Len(y) |-> [j \in 1..Len(x) |-> Sample(n, y[i], x[j])]]]

NoField == [name |-> "", y |-> <<>>, x |-> <<>>, vals |-> <<>>]
NoExc == [type |-> "", msg |-> <<>>]
NoBounds == [lat |-> <<0, 0>>, lon |-> <<0, 0>>]

\* what xr.open_dataset finds at path
Scenes ==
    { [readable |-> r, names |-> ns, y |-> y, x |-> x] :
        r \in BOOLEAN, ns \in {{"Rad"}, {"CMI", "Rad"}},
        y \in Axes, x \in {AscAxis, DescAxis, RotAxis} }

\* pandas' Index.is_monotonic_increasing / is_monotonic_decreasing (unique values)
IsAsc(a) == \A i \in 1..(Len(a) - 1) : a[i] < a[i + 1]
IsDesc(a) == \A i \in 1..(Len(a) - 1) : a[i] > a[i + 1]

\* Index.get_loc(label), 1-based
Loc(a, label) == CHOOSE i \in 1..Len(a) : a[i] = label

\* mutant: the stop label is excluded, as in a positional slice
SliceBoundHalfOpen(a, label, side) ==
    IF label \in Range(a)
    THEN Loc(a, label) - 1
    ELSE IF IsAsc(a) THEN Cardinality({ i \in 1..Len(a) : a[i] < label })
    ELSE IF IsDesc(a) THEN Cardinality({ i \in 1..Len(a) : a[i] > label })
    ELSE -1

\* Index.get_slice_bound(label, side) as the 0-based position the positional
\* slice starts at (side "left") or stops before (side "right"); -1 stands for
\* the KeyError of a label absent from an unsorted index
SliceBound(a, label, side) ==
    IF label \in Range(a)
    THEN IF side = "left" THEN Loc(a, label) - 1 ELSE Loc(a, label)
    ELSE IF IsAsc(a) THEN Cardinality({ i \in 1..Len(a) : a[i] < label })
    ELSE IF IsDesc(a) THEN Cardinality({ i \in 1..Len(a) : a[i] > label })
    ELSE -1

\* mutant: isel instead of sel, the bounds taken as array positions
SelSliceByPosition(a, lo, hi) ==
    [ok |-> TRUE, from |-> lo + 1, to |-> IF hi < Len(a) THEN hi ELSE Len(a)]

\* da.sel({name: slice(lo, hi)}) on one axis: [ok, from, to] with the retained
\* positions from..to (1-based, empty when from > to)
SelSlice(a, lo, hi) ==
    LET start == SliceBound(a, lo, "left")
        stop == SliceBound(a, hi, "right")
    IN  [ok |-> start >= 0 /\ stop >= 0, from |-> start + 1, to |-> stop]

\* subset_domain(da, lat_bounds, lon_bounds): [ok, field]; not ok is the
\* KeyError sel raises
subset_domain(f, lat_bounds, lon_bounds) ==
    LET sy == SelSlice(f.y, lat_bounds[1], lat_bounds[2])
        sx == SelSlice(f.x, lon_bounds[1], lon_bounds[2])
    IN  IF sy.ok /\ sx.ok
        THEN [ok |-> TRUE,
              field |-> [name |-> f.name,
                         y |-> SubSeq(f.y, sy.from, sy.to),
                         x |-> SubSeq(f.x, sx.from, sx.to),
                         vals |-> [i \in 1..Len(SubSeq(f.y, sy.from, sy.to)) |->
                                     SubSeq(f.vals[sy.from + i - 1], sx.from, sx.to)]]]
        ELSE [ok |-> FALSE, field |-> NoField]

\* mutant: the message does not name the variable
MissingMsgGeneric(n) == <<"La variable no existe en el Dataset.">>

\* the KeyError message of select_variable
MissingMsg(n) == <<"La variable '", n, "' no existe en el Dataset.">>

\* select_variable(ds, var_name): [ok, field, exc]
select_variable(d, n) ==
    IF n \notin DOMAIN d
    THEN [ok |-> FALSE, field |-> NoField,
          exc |-> [type |-> "KeyError", msg |-> MissingMsg(n)]]
    ELSE [ok |-> TRUE, field |-> d[n], exc |-> NoExc]

PrepInit ==
    /\ scene \in Scenes
    /\ var_name \in VarNames
    /\ ppc = "start"
    /\ ds = <<>>
    /\ da = NoField
    /\ bounds = NoBounds
    /\ bounds2 = NoBounds
    /\ sub = NoField
    /\ sub2 = NoField
    /\ pexc = NoExc
    /\ ptrace = <<>>

PrepIdle ==
    /\ scene = [readable |-> FALSE, names |-> {}, y |-> <<>>, x |-> <<>>]
    /\ var_name = ""
    /\ ppc = "off"
    /\ ds = <<>>
    /\ da = NoField
    /\ bounds = NoBounds
    /\ bounds2 = NoBounds
    /\ sub = NoField
    /\ sub2 = NoField
    /\ pexc = NoExc
    /\ ptrace = <<>>

\* ds = open_goes_scene(path): xr.open_dataset raises for a missing or
\* unreadable file
PrepOpen ==
    /\ ppc = "start"
    /\ ptrace' = Append(ptrace, "open")
    /\ IF scene.readable
       THEN /\ ds' = [n \in scene.names |-> MakeField(n, scene.y, scene.x)]
            /\ ppc' = "opened"
            /\ UNCHANGED pexc
       ELSE /\ pexc' = [type |-> "OpenError", msg |-> <<>>]
            /\ ppc' = "failed"
            /\ UNCHANGED ds
    /\ UNCHANGED <<scene, var_name, da, bounds, bounds2, sub, sub2,
                   fetchVars, plotVars, urlVars>>

\* da = select_variable(ds, var_name)
PrepSelect ==
    /\ ppc = "opened"
    /\ ptrace' = Append(ptrace, "select")
    /\ LET r == select_variable(ds, var_name)
       IN  IF r.ok
           THEN /\ da' = r.field
                /\ ppc' = "selected"
                /\ UNCHANGED pexc
           ELSE /\ pexc' = r.exc
                /\ ppc' = "failed"
                /\ UNCHANGED da
    /\ UNCHANGED <<scene, var_name, ds, bounds, bounds2, sub, sub2,
                   fetchVars, plotVars, urlVars>>

\* da_sub = subset_domain(da, ...); return da_sub
PrepSubset(latb, lonb) ==
    /\ ppc = "selected"
    /\ ptrace' = Append(ptrace, "subset")
    /\ bounds' = [lat |-> latb, lon |-> lonb]
    /\ LET r == subset_domain(da, latb, lonb)
       IN  IF r.ok
           THEN /\ sub' = r.field
                /\ ppc' = "returned"
                /\ UNCHANGED pexc
           ELSE /\ pexc' = [type |-> "KeyError", msg |-> <<>>]
                /\ ppc' = "failed"
                /\ UNCHANGED sub
    /\ UNCHANGED <<scene, var_name, ds, da, bounds2, sub2, fetchVars, plotVars, urlVars>>

\* w2 is the window w or a wider one
Wider(w, w2) == w2[1] <= w[1] /\ w[2] <= w2[2]

\* the window w, the windows that widen it by one on either side, and the
\* window that covers every coordinate
Widened(w) ==
    { w2 \in Windows : Wider(w, w2) /\ w2[1] >= w[1] - 1 /\ w2[2] <= w[2] + 1 }
        \cup {<<0, MaxCoord + 1>>}

\* the caller applies subset_domain to prepare_scene's result once more, with
\* the same bounds or with wider ones
Resubset(latb, lonb) ==
    /\ ppc = "returned"
    /\ bounds2' = [lat |-> latb, lon |-> lonb]
    /\ LET r == subset_domain(sub, latb, lonb)
       IN  IF r.ok
           THEN /\ sub2' = r.field
                /\ ppc' = "resubset"
                /\ UNCHANGED pexc
           ELSE /\ pexc' = [type |-> "KeyError", msg |-> <<>>]
                /\ ppc' = "refailed"
                /\ UNCHANGED sub2
    /\ UNCHANGED <<scene, var_name, ds, da, bounds, sub, ptrace,
                   fetchVars, plotVars, urlVars>>

PrepNext ==
    \/ PrepOpen
    \/ PrepSelect
    \/ \E latb \in Windows, lonb \in Windows : PrepSubset(latb, lonb)
    \/ \E latb \in Widened(bounds.lat) : \E lonb \in Widened(bounds.lon) :
            Resubset(latb, lonb)

-----------------------------------------------------------------------------
\* Renderer

NoSavePath == [dir |-> "", name |-> ""]
SavePaths == { [dir |-> "figs", name |-> "a.png"], [dir |-> "figs", name |-> "b.png"] }

NoImage == [exists |-> FALSE, img |-> [title |-> "", track |-> FALSE, extent |-> FALSE]]

\* the arguments a caller may pass (title "" is None, track/extent: given or not)
PlotArgs ==
    [save_path : SavePaths \cup {NoSavePath}, show : BOOLEAN,
     title : {"", "T"}, flight_track : BOOLEAN, extent : BOOLEAN]

NoArgs == [save_path |-> NoSavePath, show |-> FALSE, title |-> "",
           flight_track |-> FALSE, extent |-> FALSE]

\* what lines 54-86 draw into the figure
Drawing(a) == [title |-> a.title, track |-> a.flight_track, extent |-> a.extent]

SetMax(S) == CHOOSE m \in S : \A k \in S : k <= m

\* plt.figure(): the number of the new figure
NextFigNum == IF figs = {} THEN 1 ELSE SetMax(figs) + 1

\* mutant: the figure is not closed
CloseNothing(f) == figs

\* plt.close(fig): the open figures afterwards
CloseFig(f) == figs \ {f}

\* plt.show(): a blocking backend returns once every window was closed, which
\* destroys the figures; a non-interactive backend or interactive mode returns
\* at once and leaves them open
AfterShow == IF backend = "blocking" THEN {} ELSE figs

PlotInit ==
    /\ figs = {}
    /\ images = [p \in SavePaths |-> NoImage]
    /\ pdirs \in {{}, {"figs"}}
    /\ backend \in {"blocking", "nonblocking"}
    /\ rpc = "idle"
    /\ rargs = NoArgs
    /\ rfig = 0
    /\ rret = "none"
    /\ rcalls = 0
    /\ imagesPre = images

PlotIdle ==
    /\ figs = {}
    /\ images = [p \in SavePaths |-> NoImage]
    /\ pdirs = {}
    /\ backend = "nonblocking"
    /\ rpc = "off"
    /\ rargs = NoArgs
    /\ rfig = 0
    /\ rret = "none"
    /\ rcalls = 0
    /\ imagesPre = images

\* the caller calls plot_goes_scene(da, ...)
CallPlot(a) ==
    /\ rpc = "idle"
    /\ rcalls < MaxRenders
    /\ rcalls' = rcalls + 1
    /\ rargs' = a
    /\ rret' = "none"
    /\ imagesPre' = images
    /\ rpc' = "figure"
    /\ UNCHANGED <<figs, images, pdirs, backend, rfig, fetchVars, prepVars, urlVars>>

\* fig = plt.figure(figsize=(8, 6)); ax = plt.axes(projection=data_crs)
NewFigure ==
    /\ rpc = "figure"
    /\ rfig' = NextFigNum
    /\ figs' = figs \cup {NextFigNum}
    /\ rpc' = "draw"
    /\ UNCHANGED <<images, pdirs, backend, rargs, rret, rcalls, imagesPre,
                   fetchVars, prepVars, urlVars>>

\* lines 54-86: extent, coastlines, gridlines, da.plot, track, title,
\* tight_layout; a failure of the plotting engine leaves the function here
Draw ==
    /\ rpc = "draw"
    /\ \/ /\ rpc' = "save"
          /\ UNCHANGED rret
       \/ /\ rpc' = "idle"
          /\ rret' = "raise"
    /\ UNCHANGED <<figs, images, pdirs, backend, rargs, rfig, rcalls, imagesPre,
                   fetchVars, prepVars, urlVars>>

\* if save_path is not None: mkdir of the parent, fig.savefig(save_path, dpi=150)
Save ==
    /\ rpc = "save"
    /\ IF rargs.save_path # NoSavePath
       THEN /\ pdirs' = pdirs \cup {rargs.save_path.dir}
            /\ \/ /\ images' = [images EXCEPT ![rargs.save_path] =
                                  [exists |-> TRUE, img |-> Drawing(rargs)]]
                  /\ rpc' = "show"
                  /\ UNCHANGED rret
               \/ /\ rpc' = "idle"
                  /\ rret' = "raise"
                  /\ UNCHANGED images
       ELSE /\ rpc' = "show"
            /\ UNCHANGED <<pdirs, images, rret>>
    /\ UNCHANGED <<figs, backend, rargs, rfig, rcalls, imagesPre,
                   fetchVars, prepVars, urlVars>>

\* if show: plt.show() else: plt.close(fig); then the function returns
ShowOrClose ==
    /\ rpc = "show"
    /\ figs' = IF rargs.show THEN AfterShow ELSE CloseFig(rfig)
    /\ rret' = "ok"
    /\ rpc' = "idle"
    /\ UNCHANGED <<images, pdirs, backend, rargs, rfig, rcalls, imagesPre,
                   fetchVars, prepVars, urlVars>>

PlotNext ==
    \/ \E a \in PlotArgs : CallPlot(a)
    \/ NewFigure
    \/ Draw
    \/ Save
    \/ ShowOrClose

-----------------------------------------------------------------------------
\* Specifications

FetchIdle ==
    /\ dirState = "absent"
    /\ fs = [n \in Names |-> Absent]
    /\ pc = "off"
    /\ op = "none"
    /\ urls = <<>>
    /\ idx = 1
    /\ results = <<>>
    /\ errlog = <<>>
    /\ inflight = {}
    /\ resp = NoResp
    /\ reqs = 0
    /\ ret = NoRet
    /\ pre = Absent
    /\ order = <<>>
    /\ hist = <<>>
    /\ broken = [n \in Names |-> Absent]

FetchNext ==
    \/ \E u \in URLS : CallDownloadFile(u)
    \/ \E us \in Batches : CallDownloadMany(us)
    \/ LoopStep
    \/ EnsureDir
    \/ ExistsCheck
    \/ Get
    \/ RaiseForStatus
    \/ OpenFile
    \/ Chunk

Init == FetchInit /\ PrepIdle /\ PlotIdle /\ UrlIdle
PrepSpecInit == PrepInit /\ FetchIdle /\ PlotIdle /\ UrlIdle
PlotSpecInit == PlotInit /\ FetchIdle /\ PrepIdle /\ UrlIdle
UrlSpecInit == UrlInit /\ FetchIdle /\ PrepIdle /\ PlotIdle

\* the fetcher
Spec == Init /\ [][FetchNext]_vars

\* the fetcher, its thread running: a call that was made keeps taking steps
FairSpec == Spec /\ WF_vars(FetchStep)

\* the scene preparer
PrepSpec == PrepSpecInit /\ [][PrepNext]_vars

\* the renderer
PlotSpec == PlotSpecInit /\ [][PlotNext]_vars

\* build_goes_example_url
UrlSpec == UrlSpecInit /\ [][BuildUrl]_vars

-----------------------------------------------------------------------------
\* Claims about the fetcher

FramePcs == {"exists", "get", "status", "open", "chunk"}

\* a download_file of the running/last call has ended and no other has begun
FrameEnded == hist # <<>> /\ pc \in {"loop", "idle"}
LastFrame == hist[Len(hist)]
LastName == LastSegment(LastFrame.url)

\* download_many has returned (or raised) to its caller
BatchEnded == op = "download_many" /\ pc = "idle"

\* the entries of h of the given kind, in order
OfKind(h, k) == SelectSeq(h, LAMBDA e : e.kind = k)

\* C1: when the target file exists as download_file is entered, the call makes
\* no network request, returns out_dir / last segment, and the file keeps the
\* content it had; whatever calls came before.
C1_ExistingFileKept ==
    /\ (pc \in FramePcs /\ pre.exists) =>
          (pc = "exists" /\ reqs = 0 /\ fs[CurName] = pre)
    /\ (FrameEnded /\ pre.exists) =>
          /\ LastFrame.kind = "ok"
          /\ LastFrame.path = [dir |-> "out_dir", name |-> LastName]
          /\ reqs = 0
          /\ fs[LastName] = pre
          /\ (op = "download_file" => ret.kind = "ok" /\ ret.path = LastFrame.path)

\* a download_file for g/a has returned the file an earlier download of h/a wrote
C1_Witness ==
    /\ FrameEnded /\ pre.exists
    /\ LastFrame.url = <<"g", "/", "a">>
    /\ pre.data # <<>> /\ pre.data[1] = <<"h", "/", "a">>

\* C2: download_many never raises for failed urls; it enters download_file for
\* every url, returns the paths of those that succeeded in input order, and
\* logs one error per failed url.
C2_BatchIsolation ==
    BatchEnded =>
        /\ ret.kind = "ok"
        /\ Len(hist) = Len(urls)
        /\ \A i \in 1..Len(urls) : hist[i].url = urls[i]
        /\ Len(ret.paths) = Len(OfKind(hist, "ok"))
        /\ \A i \in 1..Len(ret.paths) : ret.paths[i] = OfKind(hist, "ok")[i].path
        /\ Len(errlog) = Len(OfKind(hist, "raise"))
        /\ \A i \in 1..Len(errlog) :
              /\ errlog[i].url = OfKind(hist, "raise")[i].url
              /\ errlog[i].exc = OfKind(hist, "raise")[i].exc

\* a batch whose first url failed in transfer and whose second was downloaded
C2_Witness ==
    /\ BatchEnded /\ Len(urls) = 2
    /\ hist[1].kind = "raise" /\ hist[2].kind = "ok"
    /\ hist[1].exc \in {"ConnectionError", "HTTPError"}
    /\ reqs = 1
    /\ Len(ret.paths) = 1 /\ Len(errlog) = 1

\* C3 (as claimed): when out_dir cannot be created, download_many raises to
\* its caller.
C3_BatchRaisesOnBlockedDir ==
    (BatchEnded /\ urls # <<>> /\ dirState = "blocked") => ret.kind = "raise"

\* C3 (amended): a filesystem error leaves download_file uncaught; inside
\* download_many it is caught like any other failure: with out_dir blocked,
\* download_many returns an empty list and logs one OSError per url.
C3_FilesystemErrors ==
    /\ (op = "download_file" /\ pc = "idle" /\ hist # <<>> /\ hist[1].kind = "raise") =>
          (ret.kind = "raise" /\ ret.exc = hist[1].exc)
    /\ (op = "download_file" /\ pc = "idle" /\ dirState = "blocked") =>
          (ret.kind = "raise" /\ ret.exc = "OSError")
    /\ BatchEnded => ret.kind = "ok"
    /\ (BatchEnded /\ dirState = "blocked") =>
          /\ ret.paths = <<>>
          /\ Len(errlog) = Len(urls)
          /\ \A i \in 1..Len(urls) :
                errlog[i] = [url |-> urls[i], exc |-> "OSError"]

\* download_many has returned normally although out_dir could not be created
C3_Witness ==
    /\ BatchEnded /\ dirState = "blocked" /\ Len(urls) >= 2
    /\ ret.kind = "ok" /\ Len(errlog) = Len(urls)

\* a transfer is open only for the url the loop is at, and only between the
\* request and the end of its download_file
OneAtATime ==
    /\ Cardinality(inflight) <= 1
    /\ inflight # {} => (inflight = {idx} /\ pc \in {"status", "open", "chunk"})

\* download_file was entered for positions 1, 2, ... once each, and the one
\* for position idx is entered only when all before it have ended
InInputOrder ==
    /\ order = [i \in 1..Len(order) |-> i]
    /\ (op = "download_many" /\ pc \in FramePcs \cup {"ensure_dir"}) =>
          (Len(order) = idx /\ Len(hist) = idx - 1)
    /\ BatchEnded => (Len(order) = Len(urls) /\ Len(hist) = Len(urls))

\* C9: download_many works through the urls one after the other in input
\* order: at most one transfer is open at any time, the transfer of url i has
\* ended before the request for url i+1 is made, and every call returns after
\* each url was tried exactly once.
C9_Sequential ==
    /\ [](OneAtATime /\ InInputOrder)
    /\ ((op = "download_many" /\ pc # "idle") ~> BatchEnded)

\* the second url's transfer is running after the first one's broke off
C9_Witness ==
    /\ op = "download_many" /\ pc = "chunk" /\ idx = 2 /\ inflight = {2}
    /\ hist[1].exc = "ChunkedEncodingError"

RECURSIVE Concat(_)
\* the chunks of a body, joined
Concat(chunks) ==
    IF chunks = <<>> THEN <<>> ELSE Head(chunks) \o Concat(Tail(chunks))

IsPrefix(a, b) == Len(a) <= Len(b) /\ a = SubSeq(b, 1, Len(a))

\* C10: a download refused with a bad HTTP status leaves no file, so a later
\* call for the url asks the network again; a download that breaks off while
\* the body streams leaves the part written so far, and from then on every
\* call for that file returns its path without a request: the file stays as
\* it was left.
C10_PartialFileSticks ==
    /\ (FrameEnded /\ LastFrame.exc = "HTTPError") =>
          (~fs[LastName].exists /\ reqs = 1)
    /\ (FrameEnded /\ ~pre.exists /\ dirState = "present") => reqs = 1
    /\ (FrameEnded /\ LastFrame.exc = "ChunkedEncodingError") =>
          /\ fs[LastName].exists
          /\ IsPrefix(fs[LastName].data, Concat(Body(LastFrame.url)))
          /\ broken[LastName] = fs[LastName]
    /\ \A n \in Names : broken[n].exists => fs[n] = broken[n]
    /\ (FrameEnded /\ pre.exists /\ broken[LastName].exists) =>
          /\ LastFrame.kind = "ok"
          /\ LastFrame.path = [dir |-> "out_dir", name |-> LastName]
          /\ reqs = 0

\* a later call has returned, as a success, a file that a broken transfer left
\* incomplete
C10_Witness ==
    /\ FrameEnded /\ pre.exists /\ broken[LastName] = pre
    /\ LastFrame.kind = "ok"
    /\ Len(pre.data) < Len(Concat(Body(LastFrame.url)))

\* a call for a url that an earlier call got a bad status for asks again
C10_WitnessRetry ==
    /\ op = "download_many" /\ pc = "status" /\ idx = 2 /\ urls[1] = urls[2]
    /\ hist[1].exc = "HTTPError"

-----------------------------------------------------------------------------
\* Claims about the scene preparer

IsSorted(a) == IsAsc(a) \/ IsDesc(a)

\* the values of axis a inside the closed window w, in a's order
InWindow(a, w) == SelectSeq(a, LAMBDA v : w[1] <= v /\ v <= w[2])

\* the second subset_domain call has ended
Resubsetted == ppc \in {"resubset", "refailed"}

\* the first subset_domain call (prepare_scene's) has ended
Subsetted == Len(ptrace) = 3

\* C5 (as claimed): for every field and bounds, subsetting the subset again
\* with the same or wider bounds returns an equivalent field.
C5_IdempotentEveryField ==
    Resubsetted => (ppc = "resubset" /\ sub2 = sub)

\* C5 (amended): subsetting the subset again with the same bounds returns an
\* equivalent field; with wider bounds it does when both coordinate axes are
\* sorted (ascending or descending).
C5_Idempotent ==
    (Resubsetted /\ (bounds2 = bounds \/ (IsSorted(scene.y) /\ IsSorted(scene.x)))) =>
        (ppc = "resubset" /\ sub2 = sub)

\* a non-empty subset of a sorted field was subset again with wider bounds
C5_Witness ==
    /\ ppc = "resubset" /\ IsSorted(scene.y) /\ IsSorted(scene.x)
    /\ Len(sub.y) >= 2 /\ Len(sub.x) >= 2 /\ Len(sub.y) < Len(scene.y)
    /\ bounds2.lat # bounds.lat /\ bounds2.lon # bounds.lon
    /\ sub2 = sub

\* what one axis keeps according to the claim: exactly the values inside the window
KeepsWindow(a, kept, w) == Range(kept) = Range(InWindow(a, w))

\* C6 (as claimed, and already on fields whose axes are sorted): subset_domain
\* (and prepare_scene) never fails, keeps only coordinates inside the closed
\* intervals and keeps every coordinate of the input that is inside them.
C6_KeepsExactlyWindow ==
    (Subsetted /\ IsSorted(scene.y) /\ IsSorted(scene.x)) =>
        /\ ppc # "failed"
        /\ KeepsWindow(scene.y, sub.y, bounds.lat)
        /\ KeepsWindow(scene.x, sub.x, bounds.lon)

\* what subset_domain keeps of a sorted axis
KeptOfSorted(a, kept, w) ==
    /\ \A i \in 1..Len(kept) : w[1] <= kept[i] /\ kept[i] <= w[2]
    /\ IsAsc(a) => kept = InWindow(a, w)
    /\ ~IsAsc(a) => kept = IF w[1] = w[2] THEN InWindow(a, w) ELSE <<>>

\* C6 (amended): on a field whose axes are sorted, subset_domain (and
\* prepare_scene) raises no error and keeps only coordinates inside the
\* closed intervals; of an ascending axis it keeps exactly the coordinates
\* inside the interval (none when the data does not cover it), of a
\* descending axis it keeps nothing unless min = max is one of its values.
C6_WithinBounds ==
    (Subsetted /\ IsSorted(scene.y) /\ IsSorted(scene.x)) =>
        /\ ppc # "failed"
        /\ KeptOfSorted(scene.y, sub.y, bounds.lat)
        /\ KeptOfSorted(scene.x, sub.x, bounds.lon)
        /\ sub.name = var_name
        /\ \A i \in 1..Len(sub.y) : \A j \in 1..Len(sub.x) :
              sub.vals[i][j] = Sample(var_name, sub.y[i], sub.x[j])

\* prepare_scene has cut a proper, non-empty part out of an ascending field
C6_Witness ==
    /\ ppc = "returned" /\ IsAsc(scene.y) /\ scene.x = AscAxis
    /\ Len(sub.y) = 2 /\ Len(scene.y) = 3 /\ Len(sub.x) = 2
    /\ bounds.lat[1] \notin Range(scene.y)

\* prepare_scene has dropped the in-window rows of a descending field
C6_WitnessDescending ==
    /\ ppc = "returned" /\ scene.y = DescAxis /\ bounds.lat = <<1, 2>>
    /\ sub.y = <<>>

\* C7: select_variable raises a KeyError naming the variable when the dataset
\* lacks it and returns the field of that name otherwise; prepare_scene runs
\* open, select, subset in this order, and a failure of open or select ends it
\* with nothing returned.
C7_SelectAndCompose ==
    /\ (Len(ptrace) >= 2 /\ var_name \notin scene.names) =>
          /\ ppc = "failed"
          /\ pexc.type = "KeyError"
          /\ var_name \in Range(pexc.msg)
    /\ (Len(ptrace) >= 2 /\ var_name \in scene.names) =>
          /\ da = MakeField(var_name, scene.y, scene.x)
          /\ da.name = var_name
    /\ ptrace = SubSeq(<<"open", "select", "subset">>, 1, Len(ptrace))
    /\ Len(ptrace) >= 2 => scene.readable
    /\ Len(ptrace) >= 3 => var_name \in scene.names
    /\ (ppc = "failed" /\ Len(ptrace) = 1) =>
          (pexc.type = "OpenError" /\ ds = <<>>)
    /\ (ppc = "failed" /\ Len(ptrace) <= 2) =>
          (da = NoField /\ sub = NoField /\ sub2 = NoField)

\* select_variable has refused a name the dataset lacks
C7_Witness ==
    /\ ppc = "failed" /\ ptrace = <<"open", "select">>
    /\ var_name = "tbb" /\ scene.names = {"CMI", "Rad"}

-----------------------------------------------------------------------------
\* Claims about the renderer

\* plot_goes_scene has returned to its caller
Rendered == rpc = "idle" /\ rret = "ok"

\* C4 (as claimed): whichever branch was taken, no figure the call created is
\* open once plot_goes_scene has returned.
C4_NoFigureLeftOpen ==
    Rendered => rfig \notin figs

\* C4 (amended): once plot_goes_scene has returned with show=False, the
\* figure it created is closed; with show=True the function does not close
\* it, and it stays open whenever plt.show() returns without the window
\* having been closed. With save_path set, the file at save_path holds this
\* call's image, also when an earlier call had written it, and no other file
\* was written.
C4_FigureReleased ==
    Rendered =>
        /\ ~rargs.show => rfig \notin figs
        /\ (rargs.show /\ backend = "nonblocking") => rfig \in figs
        /\ rargs.save_path # NoSavePath =>
              /\ images[rargs.save_path] = [exists |-> TRUE, img |-> Drawing(rargs)]
              /\ rargs.save_path.dir \in pdirs
              /\ \A p \in SavePaths \ {rargs.save_path} : images[p] = imagesPre[p]
        /\ rargs.save_path = NoSavePath => images = imagesPre

\* a second call with show=False has overwritten the image at save_path with
\* a different one and closed its figure
C4_Witness ==
    /\ Rendered /\ ~rargs.show /\ rargs.save_path # NoSavePath
    /\ imagesPre[rargs.save_path].exists
    /\ imagesPre[rargs.save_path].img # Drawing(rargs)
    /\ rfig \notin figs

\* a call with show=True has returned and its figure is still open
C4_WitnessShown ==
    Rendered /\ rargs.show /\ rfig \in figs

-----------------------------------------------------------------------------
\* Claims about build_goes_example_url

\* C8: build_goes_example_url puts exactly one slash between base_url without
\* its trailing slashes and filename; "https://example.com/data/" and
\* "https://example.com/data" with "file.nc" both give
\* "https://example.com/data/file.nc".
C8_OneSlashJoin ==
    upc = "built" =>
        /\ \E k \in 0..Len(ubase) :
              /\ k = 0 \/ ubase[k] # Slash
              /\ \A i \in (k + 1)..Len(ubase) : ubase[i] = Slash
              /\ uresult = SubSeq(ubase, 1, k) \o <<Slash>> \o ufile
        /\ (ubase \in {ExampleBase, ExampleBase \o <<Slash>>} /\ ufile = ExampleFile) =>
              uresult = <<"h", "t", "t", "p", "s", ":", "/", "/", "e", "x", "a", "m",
                          "p", "l", "e", ".", "c", "o", "m", "/", "d", "a", "t", "a",
                          "/", "f", "i", "l", "e", ".", "n", "c">>

\* the url was built from the example base with its trailing slash
C8_Witness ==
    /\ upc = "built" /\ ubase = ExampleBase \o <<Slash>> /\ ufile = ExampleFile
    /\ Len(uresult) = Len(ExampleBase) + 1 + Len(ExampleFile)

=============================================================================
